---------------------------- MODULE Spec2Model ----------------------------
(***************************************************************************)
(* StDb: the station-list generator (Scripts/gen_stdb.py) and the database *)
(* lister (Scripts/ls_stdb.py) as state machines.                          *)
(*                                                                         *)
(* Text is modelled as sequences of one-character strings, so that strip,  *)
(* split, slicing, str.format and the substring test are computed the way  *)
(* Python computes them.  Numbers read by float() are restricted to        *)
(* integer-valued numerals.  The scripts are Python 2 (dict.has_key, a     *)
(* list from dict.keys()).                                                 *)
(***************************************************************************)
EXTENDS Integers, Sequences, FiniteSets, TLC

VARIABLES
    \* gen_stdb.py
    pc,         \* position of the generation script
    opts,       \* parsed options and what is known of args[0]
    stations,   \* the station dictionary: key -> stored value
    env,        \* the loop's local variables, and which of them are bound
    cur,        \* the text line the for loop last took from fin
    nread,      \* number of lines taken from fin
    msg,        \* what the last pass of the loop printed about a key
    err,        \* the exception or exit that ended the run, "none" otherwise
    eof,        \* fin is exhausted
    pkl,        \* what write_db has been given, one entry per call
    \* ls_stdb.py
    lpc,        \* position of the listing script
    lopts,      \* parsed options of the listing script, number of inpickles
    npickle,    \* number of input databases taken from inpickles
    db,         \* the loaded database
    allkeys,    \* db.keys(), in the dictionary's order
    stkeys,     \* the keys to list
    ikey,       \* number of keys of stkeys already listed
    nets        \* the networks collected, then the networks printed

gvars == <<pc, opts, stations, env, cur, nread, msg, err, eof, pkl>>
lvars == <<lpc, lopts, npickle, db, allkeys, stkeys, ikey, nets>>
vars == <<pc, opts, stations, env, cur, nread, msg, err, eof, pkl,
          lpc, lopts, npickle, db, allkeys, stkeys, ikey, nets>>

(***************************************************************************)
(* Bounds                                                                  *)
(***************************************************************************)
\* lines the station list holds at most
MaxLines == 3
\* input databases given to the lister at most
MaxPickles == 2

(***************************************************************************)
(* Python text primitives                                                  *)
(***************************************************************************)
\* characters str.strip() and str.split() treat as whitespace
Whitespace == {" ", "\t", "\n"}

RECURSIVE lstrip(_)
lstrip(s) ==
    IF Len(s) > 0 /\ Head(s) \in Whitespace THEN lstrip(Tail(s)) ELSE s

RECURSIVE rstrip(_)
rstrip(s) ==
    IF Len(s) > 0 /\ s[Len(s)] \in Whitespace
    THEN rstrip(SubSeq(s, 1, Len(s) - 1)) ELSE s

\* str.strip()
strip(s) == rstrip(lstrip(s))

\* str.split(c) for a one-character separator: empty fields are kept
RECURSIVE split(_, _)
split(s, c) ==
    IF \A i \in 1..Len(s) : s[i] # c
    THEN <<s>>
    ELSE LET i == CHOOSE i \in 1..Len(s) :
                      s[i] = c /\ \A j \in 1..(i - 1) : s[j] # c
         IN <<SubSeq(s, 1, i - 1)>> \o split(SubSeq(s, i + 1, Len(s)), c)

\* str.split(): runs of whitespace separate, no empty fields
RECURSIVE splitws(_)
splitws(s) ==
    LET t == lstrip(s)
    IN IF Len(t) = 0 THEN <<>>
       ELSE IF \A i \in 1..Len(t) : t[i] \notin Whitespace
       THEN <<t>>
       ELSE LET i == CHOOSE i \in 1..Len(t) :
                         t[i] \in Whitespace
                         /\ \A j \in 1..(i - 1) : t[j] \notin Whitespace
            IN <<SubSeq(t, 1, i - 1)>> \o splitws(SubSeq(t, i, Len(t)))

\* a slice one character too long: s[0:3]
slice3(s) == SubSeq(s, 1, IF Len(s) < 3 THEN Len(s) ELSE 3)

\* s[0:2]
slice2(s) == SubSeq(s, 1, IF Len(s) < 2 THEN Len(s) ELSE 2)

\* the format field {:Ns}: left-justified, padded with spaces to a minimum
\* width of N, never truncated
RECURSIVE formats(_, _)
formats(s, width) ==
    IF Len(s) >= width THEN s ELSE formats(s \o <<" ">>, width)

\* sub in s
contains(sub, s) ==
    \E i \in 0..(Len(s) - Len(sub)) : SubSeq(s, i + 1, i + Len(sub)) = sub

Digits == <<"0", "1", "2", "3", "4", "5", "6", "7", "8", "9">>
DigitSet == {Digits[i] : i \in 1..Len(Digits)}
digitval(c) == (CHOOSE i \in 1..Len(Digits) : Digits[i] = c) - 1

RECURSIVE natval(_)
natval(s) ==
    IF Len(s) = 0 THEN 0
    ELSE 10 * natval(SubSeq(s, 1, Len(s) - 1)) + digitval(s[Len(s)])

\* whether float(s) returns (restricted to integer-valued numerals);
\* float() ignores surrounding whitespace; otherwise it raises ValueError
isfloat(s) ==
    LET t == strip(s)
        d == IF Len(t) > 0 /\ Head(t) = "-" THEN Tail(t) ELSE t
    IN Len(d) > 0 /\ \A i \in 1..Len(d) : d[i] \in DigitSet

\* float(s)
float(s) ==
    LET t == strip(s)
    IN IF Len(t) > 0 /\ Head(t) = "-" THEN 0 - natval(Tail(t)) ELSE natval(t)

\* ASCII order of the characters used, for list.sort() on strings
Ascii == <<"\t", "\n", " ", "#", ",", "-", ".", "0", "1", "2", "3", "4", "5",
           "6", "7", "8", "9", ":", "A", "B", "C", "D", "E", "F", "H", "N",
           "Q", "R", "X", "Y", "Z", "a", "b", "c">>
ord(c) == CHOOSE i \in 1..Len(Ascii) : Ascii[i] = c

\* a < b for strings
RECURSIVE strlt(_, _)
strlt(a, b) ==
    IF Len(b) = 0 THEN FALSE
    ELSE IF Len(a) = 0 THEN TRUE
    ELSE IF Head(a) # Head(b) THEN ord(Head(a)) < ord(Head(b))
    ELSE strlt(Tail(a), Tail(b))


\* str.find(sub): the 0-based index of the first occurrence, -1 if none
find(s, sub) ==
    IF contains(sub, s)
    THEN (CHOOSE i \in 0..(Len(s) - Len(sub)) :
              SubSeq(s, i + 1, i + Len(sub)) = sub
              /\ \A j \in 0..(i - 1) : SubSeq(s, j + 1, j + Len(sub)) # sub)
    ELSE 0 - 1

\* os.path.splitext(p): <<root, ext>>, ext from the last dot (paths here
\* have no directory part and no leading dot)
splitext(p) ==
    IF \A i \in 1..Len(p) : p[i] # "."
    THEN <<p, <<>>>>
    ELSE LET i == CHOOSE i \in 1..Len(p) :
                      p[i] = "." /\ \A j \in (i + 1)..Len(p) : p[j] # "."
         IN <<SubSeq(p, 1, i - 1), SubSeq(p, i, Len(p))>>

\* ",".join-like helper used to write the input lines below
RECURSIVE join(_, _)
join(fields, sep) ==
    IF Len(fields) = 0 THEN <<>>
    ELSE IF Len(fields) = 1 THEN fields[1]
    ELSE fields[1] \o sep \o join(Tail(fields), sep)

(***************************************************************************)
(* Inputs: command lines and station-list lines                            *)
(***************************************************************************)
DotCsv == <<".", "c", "s", "v">>
DotPkl == <<".", "p", "k", "l">>
\* args[0]: a.csv, a.cc (another extension), a.pkl
ArgNames == { <<"a">> \o DotCsv, <<"a", ".", "c", "c">>, <<"a">> \o DotPkl }

\* -t values tried: the two valid versions and an invalid one
DbVersions == {1, 2, 3}

Date1 == <<"2", "0", "0", "1">>
Date2 == <<"2", "0", "0", "9">>
Time0 == <<"0", "0", ":", "0", "0">>
Lat == <<"4", "5">>
Lon == <<"-", "7", "0">>

\* a chS csv line: net, stn, loc, chn, dates and times, lat, lon, then extra
DelimLine(net, stn, loc, chn, lat, extra) ==
    join(<<net, stn, loc, chn, Date1, Time0, Date2, Time0, lat, Lon>> \o extra,
         <<",">>) \o <<"\n">>

DelimLines ==
    { DelimLine(<<"X", "X">>, <<"A">>, <<>>, <<"H", "H", "Z">>, Lat, <<>>),
      DelimLine(<<"X", "X">>, <<"A">>, <<>>, <<"B", "H", "Z">>, Lat, <<<<"5">>>>),
      DelimLine(<<"X", "X", ":", "Z", "Z">>, <<" ", "B", " ">>,
                <<"0", "0", ":", "1", "0">>, <<"H">>, Lat, <<<<"5">>, <<"2">>>>),
      DelimLine(<<"Y", "Y", " ">>, <<"A">>, <<>>, <<" ", "H", "Z">>, Lat,
                <<<<"6">>, <<"2">>, <<"3">>>>),
      DelimLine(<<"Y", "Y">>, <<"B">>, <<>>, <<"H", "H", "Z">>, Lat,
                <<<<"7">>, <<"-", "1">>, <<"4">>, <<"R">>>>),
      DelimLine(<<"X", "X">>, <<"A">>, <<>>, <<"H", "H", "Z">>, Lat,
                <<<<"8">>, <<"2">>, <<"3">>, <<"R">>, <<"Q">>>>),
      DelimLine(<<"X", "X">>, <<"A">>, <<>>, <<"H", "H", "Z">>, <<"a", "b">>, <<>>),
      \* 9, 8 and 7 comma fields
      join(<<<<"X", "X">>, <<"A">>, <<>>, <<"H", "H", "Z">>, Date1, Time0, Date2,
             Time0, Lat>>, <<",">>) \o <<"\n">>,
      join(<<<<"X", "X">>, <<"A">>, <<>>, <<"H", "H", "Z">>, Date1, Time0, Date2,
             Time0>>, <<",">>) \o <<"\n">>,
      join(<<<<"X", "X">>, <<"A">>, <<>>, <<"H", "H", "Z">>, Date1, Time0, Date2>>,
           <<",">>) \o <<"\n">> }

\* IPO SPC lines: 8 fields, 8 fields with a short channel, 7 fields, and a
\* tab-separated line with empty fields
ColumnLines ==
    { join(<<<<"X", "X">>, <<"A">>, <<"H", "H", "Z">>, Lat, Lon, <<"5">>, Date1,
             Date2>>, <<" ">>) \o <<"\n">>,
      join(<<<<"Y", "Y">>, <<"C">>, <<"H">>, Lat, Lon, <<"9">>, Date1, Date2>>,
           <<" ", " ">>) \o <<"\n">>,
      join(<<<<"X", "X">>, <<"A">>, <<"H", "H", "Z">>, Lat, Lon, <<"5">>, Date1>>,
           <<" ">>) \o <<"\n">>,
      join(<<<<"X", "X">>, <<>>, <<"H", "H", "Z">>, Lat, Lon, <<"5">>, <<>>, Date2>>,
           <<"\t">>) \o <<"\n">> }

\* a line of neither format, a blank line, a comment
OtherLines ==
    { <<"a", "b", "c", "\n">>, <<" ", "\n">>, <<"#", " ", "c", "\n">> }

Lines == DelimLines \cup ColumnLines \cup OtherLines

(***************************************************************************)
(* gen_stdb.py: the loop's local variables                                 *)
(***************************************************************************)
\* obspy's UTCDateTime(s), kept as the text it was built from
UTCDateTime(s) == [utc |-> s]

\* no local bound yet; the values of unbound names are never read
NoEnv ==
    [bound |-> {}, net |-> <<>>, altnet |-> <<>>, stn |-> <<>>, loc |-> <<>>,
     chn |-> <<>>, stdt |-> <<>>, sttm |-> <<>>, eddt |-> <<>>, edtm |-> <<>>,
     lat |-> 0, lon |-> 0, elev |-> 0, pol |-> 0, azcor |-> 0,
     status |-> <<>>, key |-> <<>>]

\* name = value
Bind(e, name, value) ==
    [e EXCEPT ![name] = value, !.bound = @ \cup {name}]

Raised(e, what) == [env |-> e, err |-> what]
Parsed(e) == [env |-> e, err |-> "none"]

(***************************************************************************)
(* gen_stdb.py: one pass of the loop body over a line                      *)
(***************************************************************************)
\* the line is skipped by the `continue` of the blank/comment test
IsBlankOrComment(line) == IF Len(line) = 0 THEN TRUE ELSE line[1] = "#"

\* the first branch is taken
IsDelimited(line) == Len(split(line, ",")) > 6

\* the elif branch is taken
IsColumnar(line) ==
    IF IsDelimited(line) THEN FALSE
    ELSE IF Len(splitws(line)) > 6 THEN TRUE
    ELSE Len(split(line, "\t")) > 6

\* the defaults are not set again for the line: the locals keep the values
\* of the line before
OptionalDefaultsKept(e) == e

\* elev = 0.; pol = 1.; azcor = 0.
OptionalDefaults(e) ==
    Bind(Bind(Bind(e, "elev", 0), "pol", 1), "azcor", 0)

\* the optional elements of a chS csv line f, after the defaults
OptionalFields(e, f) ==
    LET n == Len(f)
        e0 == OptionalDefaults(e)
    IN IF n < 11 THEN Parsed(e0)
       ELSE IF ~isfloat(f[11]) THEN Raised(e0, "ValueError")
       ELSE LET e1 == Bind(e0, "elev", float(f[11]))
            IN IF n < 12 THEN Parsed(e1)
               ELSE IF ~isfloat(f[12]) THEN Raised(e1, "ValueError")
               ELSE LET e2 == Bind(e1, "pol", float(f[12]))
                    IN IF n < 13 THEN Parsed(e2)
                       ELSE IF ~isfloat(f[13]) THEN Raised(e2, "ValueError")
                       ELSE LET e3 == Bind(e2, "azcor", float(f[13]))
                            IN IF n = 14
                               THEN Parsed(Bind(e3, "status", f[14]))
                               ELSE Parsed(e3)

\* the chS csv branch on the fields f of the line (more than 6 of them)
DelimitedBranch(e, f) ==
    LET n == Len(f)
        nets0 == split(f[1], ":")
        e1 == Bind(Bind(e, "net", nets0[1]), "altnet", Tail(nets0))
        e2 == Bind(e1, "stn", f[2])
        e3 == Bind(e2, "loc", split(f[3], ":"))
        e4 == Bind(e3, "chn", slice2(f[4]))
        e5 == Bind(Bind(Bind(e4, "stdt", f[5]), "sttm", f[6]), "eddt", f[7])
    IN IF n < 8 THEN Raised(e5, "IndexError")
       ELSE LET e6 == Bind(e5, "edtm", f[8])
            IN IF n < 9 THEN Raised(e6, "IndexError")
               ELSE IF ~isfloat(f[9]) THEN Raised(e6, "ValueError")
               ELSE LET e7 == Bind(e6, "lat", float(f[9]))
                    IN IF n < 10 THEN Raised(e7, "IndexError")
                       ELSE IF ~isfloat(f[10]) THEN Raised(e7, "ValueError")
                       ELSE OptionalFields(Bind(e7, "lon", float(f[10])), f)

\* the IPO SPC branch on the fields f of the line (more than 6 of them)
ColumnarBranch(e, f) ==
    LET n == Len(f)
        e1 == Bind(Bind(Bind(e, "net", f[1]), "stn", f[2]), "chn", slice2(f[3]))
        e2 == Bind(e1, "stdt", f[7])
    IN IF n < 8 THEN Raised(e2, "IndexError")
       ELSE LET e3 == Bind(e2, "eddt", f[8])
            IN IF ~isfloat(f[4]) THEN Raised(e3, "ValueError")
               ELSE LET e4 == Bind(e3, "lat", float(f[4]))
                    IN IF ~isfloat(f[5]) THEN Raised(e4, "ValueError")
                       ELSE LET e5 == Bind(e4, "lon", float(f[5]))
                            IN IF ~isfloat(f[6]) THEN Raised(e5, "ValueError")
                               ELSE LET e6 == Bind(e5, "elev", float(f[6]))
                                        e7 == Bind(Bind(e6, "altnet", <<>>),
                                                   "status", <<>>)
                                        e8 == Bind(Bind(e7, "azcor", 0), "pol", 0)
                                    IN Parsed(Bind(e8, "loc", <<>>))

\* the fields of a columnar line: line.split(), else line.split('\t')
ColumnarFields(line) ==
    IF Len(splitws(line)) > 6 THEN splitws(line) ELSE split(line, "\t")

\* the key with the channel formatted as {2:s}, without a width
BuildKeyNoWidth(net, stn, chn, lkey) ==
    IF lkey
    THEN strip(net) \o <<".">> \o strip(stn) \o <<".">> \o strip(chn)
    ELSE strip(net) \o <<".">> \o strip(stn)

\* the key of the line: "{0:s}.{1:s}.{2:2s}" or "{0:s}.{1:s}"
BuildKey(net, stn, chn, lkey) ==
    IF lkey
    THEN strip(net) \o <<".">> \o strip(stn) \o <<".">> \o formats(strip(chn), 2)
    ELSE strip(net) \o <<".">> \o strip(stn)

\* a membership test that never finds the key
has_key_never(st, key) == FALSE

\* stations.has_key(key)
has_key(st, key) == key \in DOMAIN st

\* the value stored for the line: an StDbElement (version 2) or a list
NewElement(e, dbver) ==
    IF dbver = 2
    THEN [ver |-> 2, network |-> e.net, altnet |-> e.altnet, station |-> e.stn,
          channel |-> e.chn, location |-> e.loc, latitude |-> e.lat,
          longitude |-> e.lon, elevation |-> e.elev, polarity |-> e.pol,
          azcorr |-> e.azcor, startdate |-> UTCDateTime(e.stdt),
          enddate |-> UTCDateTime(e.eddt), restricted_status |-> e.status]
    ELSE [ver |-> 1,
          list |-> <<e.net, e.stn, e.lat, e.lon, e.chn, UTCDateTime(e.stdt),
                     UTCDateTime(e.eddt)>>]

\* the local names the stored value is built from
ElementNames(dbver) ==
    IF dbver = 2
    THEN {"net", "altnet", "stn", "chn", "loc", "lat", "lon", "elev", "pol",
          "azcor", "stdt", "eddt", "status"}
    ELSE {"net", "stn", "lat", "lon", "chn", "stdt", "eddt"}

\* stations[key] = value
SetItem(st, key, value) ==
    [k \in DOMAIN st \cup {key} |-> IF k = key THEN value ELSE st[k]]

\* "Now Add lines to station Dictionary": the state after the insert step
\* run with the locals e
AddToStations(st, e, o) ==
    IF ~({"net", "stn", "chn"} \subseteq e.bound)
    THEN [stations |-> st, env |-> e, msg |-> [kind |-> "none", key |-> <<>>],
          err |-> "NameError"]
    ELSE LET key == BuildKey(e.net, e.stn, e.chn, o.lkey)
             e1 == Bind(e, "key", key)
         IN IF has_key(st, key)
            THEN [stations |-> st, env |-> e1,
                  msg |-> [kind |-> "Warning", key |-> key], err |-> "none"]
            ELSE IF ~(ElementNames(o.dbver) \subseteq e1.bound)
            THEN [stations |-> st, env |-> e1,
                  msg |-> [kind |-> "none", key |-> <<>>], err |-> "NameError"]
            ELSE [stations |-> SetItem(st, key, NewElement(e1, o.dbver)),
                  env |-> e1, msg |-> [kind |-> "Adding", key |-> key],
                  err |-> "none"]

\* an error in a loop pass ends the loop and the database is still written
AfterLineStillWrites(error) == IF error = "none" THEN "loop" ELSE "pickle"

\* where the script is after a loop pass that ended with `error`
AfterLine(error) == IF error = "none" THEN "loop" ELSE "aborted"

(***************************************************************************)
(* gen_stdb.py: the script                                                 *)
(***************************************************************************)
NoMsg == [kind |-> "none", key |-> <<>>]

InitGen ==
    /\ pc = "start"
    /\ opts \in [arg : ArgNames, exists : BOOLEAN, dbver : DbVersions,
                 lkey : BOOLEAN]
    /\ stations = << >>
    /\ env = NoEnv
    /\ cur = <<>>
    /\ nread = 0
    /\ msg = NoMsg
    /\ err = "none"
    /\ eof = FALSE
    /\ pkl = <<>>

\* the output file name derived from args[0]
PklFile(arg) ==
    LET ofn == IF find(arg, DotCsv) # 0 /\ Len(arg) - 4 = find(arg, DotCsv)
               THEN splitext(arg)[1] ELSE arg
    IN ofn \o DotPkl

\* parser.error("Input File ... does not exist")
MissingInput ==
    /\ pc = "start"
    /\ ~opts.exists
    /\ pc' = "exit"
    /\ err' = "parser.error"
    /\ UNCHANGED <<opts, stations, env, cur, nread, msg, eof, pkl>>
    /\ UNCHANGED lvars

\* parser.error("Please specify valid db version (1 or 2)")
InvalidVersion ==
    /\ pc = "start"
    /\ opts.exists
    /\ opts.dbver # 1 /\ opts.dbver # 2
    /\ pc' = "exit"
    /\ err' = "parser.error"
    /\ UNCHANGED <<opts, stations, env, cur, nread, msg, eof, pkl>>
    /\ UNCHANGED lvars

\* "Error: Must supply a station list, not a Pickle File"; exit()
PickleInput ==
    /\ pc = "start"
    /\ opts.exists
    /\ opts.dbver \in {1, 2}
    /\ splitext(opts.arg)[2] = DotPkl
    /\ pc' = "exit"
    /\ err' = "exit"
    /\ UNCHANGED <<opts, stations, env, cur, nread, msg, eof, pkl>>
    /\ UNCHANGED lvars

\* fin = open(args[0],'r'); stations = {}
OpenList ==
    /\ pc = "start"
    /\ opts.exists
    /\ opts.dbver \in {1, 2}
    /\ splitext(opts.arg)[2] # DotPkl
    /\ pc' = "loop"
    /\ stations' = << >>
    /\ UNCHANGED <<opts, env, cur, nread, msg, err, eof, pkl>>
    /\ UNCHANGED lvars

\* the for loop takes the line raw from fin
TakeLine(raw) ==
    /\ pc = "loop"
    /\ nread < MaxLines
    /\ cur' = raw
    /\ nread' = nread + 1
    /\ UNCHANGED <<opts, eof, pkl>>
    /\ UNCHANGED lvars

\* a blank line or a comment: continue
SkipLine ==
    \E raw \in Lines :
        /\ TakeLine(raw)
        /\ IsBlankOrComment(strip(raw))
        /\ msg' = NoMsg
        /\ UNCHANGED <<pc, stations, env, err>>

\* the insert step with the locals left by the format branch
Insert(parse) ==
    IF parse.err # "none"
    THEN /\ env' = parse.env
         /\ err' = parse.err
         /\ pc' = AfterLine(parse.err)
         /\ msg' = NoMsg
         /\ UNCHANGED stations
    ELSE LET r == AddToStations(stations, parse.env, opts)
         IN /\ stations' = r.stations
            /\ env' = r.env
            /\ msg' = r.msg
            /\ err' = r.err
            /\ pc' = AfterLine(r.err)

\* a line with more than 6 comma fields
DelimitedLine ==
    \E raw \in Lines :
        /\ TakeLine(raw)
        /\ ~IsBlankOrComment(strip(raw))
        /\ IsDelimited(strip(raw))
        /\ Insert(DelimitedBranch(env, split(strip(raw), ",")))

\* a line with more than 6 whitespace or tab fields
ColumnarLine ==
    \E raw \in Lines :
        /\ TakeLine(raw)
        /\ ~IsBlankOrComment(strip(raw))
        /\ IsColumnar(strip(raw))
        /\ Insert(ColumnarBranch(env, ColumnarFields(strip(raw))))

\* a line neither branch takes: the insert step runs with the locals as the
\* lines before left them
OtherLine ==
    \E raw \in Lines :
        /\ TakeLine(raw)
        /\ ~IsBlankOrComment(strip(raw))
        /\ ~IsDelimited(strip(raw))
        /\ ~IsColumnar(strip(raw))
        /\ Insert(Parsed(env))

\* fin is exhausted: the for loop ends
EndOfList ==
    /\ pc = "loop"
    /\ pc' = "pickle"
    /\ eof' = TRUE
    /\ UNCHANGED <<opts, stations, env, cur, nread, msg, err, pkl>>
    /\ UNCHANGED lvars

\* write_db(fname=pklfile, stdb=stations, binp=opts.use_binary)
WriteDb ==
    /\ pc = "pickle"
    /\ pkl' = Append(pkl, [fname |-> PklFile(opts.arg), stdb |-> stations])
    /\ pc' = "done"
    /\ UNCHANGED <<opts, stations, env, cur, nread, msg, err, eof>>
    /\ UNCHANGED lvars

(***************************************************************************)
(* ls_stdb.py                                                              *)
(***************************************************************************)
\* get_options: opts.keys is split on commas when it is not empty
get_keys(keys) == IF Len(keys) > 0 THEN split(keys, ",") ELSE keys

\* values of --keys tried: none, "ABC,NX", "NX", "YY", "ABC,ABC", "Q",
\* "NX," and "."
KeysArgs ==
    { <<>>,
      <<"A", "B", "C", ",", "N", "X">>,
      <<"N", "X">>,
      <<"Y", "Y">>,
      <<"A", "B", "C", ",", "A", "B", "C">>,
      <<"Q">>,
      <<"N", "X", ",">>,
      <<".">> }

\* the records the databases hold: network, station, channel
Elements ==
    { [network |-> <<"N", "X">>, station |-> <<"A", "B", "C">>,
       channel |-> <<"H", "H">>],
      [network |-> <<"N", "X">>, station |-> <<"D", "E", "F">>,
       channel |-> <<"H", "H">>],
      [network |-> <<"Y", "Y">>, station |-> <<"A", "B", "C">>,
       channel |-> <<"B", "H">>],
      [network |-> <<"Z", "Z">>, station |-> <<"N", "X">>,
       channel |-> <<"H", "H">>] }

\* load_db(inpickle, binp): a database as gen_stdb.py writes it with short
\* keys, its values in the canonical shape
Database(S) ==
    [k \in {BuildKey(x.network, x.station, x.channel, FALSE) : x \in S} |->
        CHOOSE x \in S : BuildKey(x.network, x.station, x.channel, FALSE) = k]

Databases == {Database(S) : S \in SUBSET Elements}

\* dict.keys(): the keys once each, in an order the dictionary decides
KeyOrders(d) ==
    {s \in [1..Cardinality(DOMAIN d) -> DOMAIN d] :
        \A i, j \in 1..Cardinality(DOMAIN d) : i # j => s[i] # s[j]}

\* [s for s in allkeys if skey in s]
MatchingKeys(keys, skey) == SelectSeq(keys, LAMBDA s : contains(skey, s))

\* the loop extending the list only with keys it does not hold yet
RECURSIVE ExtendAllUnique(_, _, _)
ExtendAllUnique(acc, keys, skeys) ==
    IF Len(skeys) = 0 THEN acc
    ELSE ExtendAllUnique(
             acc \o SelectSeq(MatchingKeys(keys, Head(skeys)),
                              LAMBDA s : \A i \in 1..Len(acc) : acc[i] # s),
             keys, Tail(skeys))

\* the loop `for skey in opts.keys: stkeys.extend(...)` from stkeys = acc
RECURSIVE ExtendAll(_, _, _)
ExtendAll(acc, keys, skeys) ==
    IF Len(skeys) = 0 THEN acc
    ELSE ExtendAll(acc \o MatchingKeys(keys, Head(skeys)), keys, Tail(skeys))

\* "Extract key subset"
ExtractKeys(keys, skeys) ==
    IF Len(skeys) > 0 THEN ExtendAll(<<>>, keys, skeys) ELSE keys

\* list.sort() of list(set(xs)), for strings
RECURSIVE SortedList(_)
SortedList(S) ==
    IF S = {} THEN <<>>
    ELSE LET m == CHOOSE m \in S : \A x \in S \ {m} : strlt(m, x)
         IN <<m>> \o SortedList(S \ {m})

\* nets = list(set(nets)); nets.sort()
DistinctSorted(xs) == SortedList({xs[i] : i \in 1..Len(xs)})

InitLs ==
    /\ lpc = "load"
    /\ \E ka \in KeysArgs, nw \in BOOLEAN, n \in 1..MaxPickles :
           lopts = [keys |-> get_keys(ka), networks |-> nw, npickles |-> n]
    /\ npickle = 0
    /\ db = << >>
    /\ allkeys = <<>>
    /\ stkeys = <<>>
    /\ ikey = 0
    /\ nets = <<>>

\* the next input database is loaded and its keys are extracted
LsLoad ==
    /\ lpc = "load"
    /\ npickle < lopts.npickles
    /\ \E d \in Databases :
           /\ db' = d
           /\ \E order \in KeyOrders(d) :
                  /\ allkeys' = order
                  /\ stkeys' = ExtractKeys(order, lopts.keys)
    /\ nets' = IF lopts.networks THEN <<>> ELSE nets
    /\ npickle' = npickle + 1
    /\ ikey' = 0
    /\ lpc' = "list"
    /\ UNCHANGED lopts
    /\ UNCHANGED gvars

\* one pass of `for key in stkeys` with -N: the network is collected
LsCollectNetwork ==
    /\ lpc = "list"
    /\ ikey < Len(stkeys)
    /\ lopts.networks
    /\ ikey' = ikey + 1
    /\ nets' = Append(nets, db[stkeys[ikey + 1]].network)
    /\ UNCHANGED <<lpc, lopts, npickle, db, allkeys, stkeys>>
    /\ UNCHANGED gvars

\* one pass of `for key in stkeys` without -N: the record is printed
LsPrintElement ==
    /\ lpc = "list"
    /\ ikey < Len(stkeys)
    /\ ~lopts.networks
    /\ ikey' = ikey + 1
    /\ UNCHANGED <<lpc, lopts, npickle, db, allkeys, stkeys, nets>>
    /\ UNCHANGED gvars

\* after the loop with -N: the networks are printed
LsPrintNetworks ==
    /\ lpc = "list"
    /\ ikey = Len(stkeys)
    /\ lopts.networks
    /\ nets' = DistinctSorted(nets)
    /\ lpc' = IF npickle < lopts.npickles THEN "load" ELSE "done"
    /\ UNCHANGED <<lopts, npickle, db, allkeys, stkeys, ikey>>
    /\ UNCHANGED gvars

\* after the loop without -N
LsEndList ==
    /\ lpc = "list"
    /\ ikey = Len(stkeys)
    /\ ~lopts.networks
    /\ lpc' = IF npickle < lopts.npickles THEN "load" ELSE "done"
    /\ UNCHANGED <<lopts, npickle, db, allkeys, stkeys, ikey, nets>>
    /\ UNCHANGED gvars

(***************************************************************************)
(* Specifications                                                          *)
(***************************************************************************)
\* the generation script runs; the lister has not started
Init == InitGen /\ lpc = "off" /\ lopts = [keys |-> <<>>, networks |-> FALSE,
                                           npickles |-> 0]
        /\ npickle = 0 /\ db = << >> /\ allkeys = <<>> /\ stkeys = <<>>
        /\ ikey = 0 /\ nets = <<>>

Next ==
    \/ MissingInput
    \/ InvalidVersion
    \/ PickleInput
    \/ OpenList
    \/ SkipLine
    \/ DelimitedLine
    \/ ColumnarLine
    \/ OtherLine
    \/ EndOfList
    \/ WriteDb

Spec == Init /\ [][Next]_vars

\* the lister runs; the generation script is not running
InitList == InitLs /\ pc = "off" /\ opts = [arg |-> <<>>, exists |-> FALSE,
                                            dbver |-> 2, lkey |-> FALSE]
            /\ stations = << >> /\ env = NoEnv /\ cur = <<>> /\ nread = 0
            /\ msg = NoMsg /\ err = "none" /\ eof = FALSE /\ pkl = <<>>

NextList ==
    \/ LsLoad
    \/ LsCollectNetwork
    \/ LsPrintElement
    \/ LsPrintNetworks
    \/ LsEndList

SpecLs == InitList /\ [][NextList]_vars

(***************************************************************************)
(* Properties of the generation script                                     *)
(***************************************************************************)
\* this step took a line from the station list
TookLine == nread' = nread + 1

\* the line this step took, stripped
LineTaken == strip(cur')

\* this step took a line of one of the two formats and its format branch
\* ran to its end, so the insert step was entered
BranchCompleted ==
    /\ TookLine
    /\ ~IsBlankOrComment(LineTaken)
    /\ (IsDelimited(LineTaken) \/ IsColumnar(LineTaken))
    /\ err' \notin {"IndexError", "ValueError"}

\* the insert step was entered in this step, with whatever locals were bound
InsertEntered ==
    /\ TookLine
    /\ ~IsBlankOrComment(LineTaken)
    /\ err' \notin {"IndexError", "ValueError"}
    /\ {"net", "stn", "chn"} \subseteq env'.bound

\* the key the insert step of this step works with
StepKey == BuildKey(env'.net, env'.stn, env'.chn, opts.lkey)

\* C1: when the key of the line is already in the station dictionary, the
\* insert step keeps the stored value, prints the warning, does not abort
\* and adds no key; in every step, each key stays and keeps its value.
C1_FirstSeenKept ==
    [][ /\ \A k \in DOMAIN stations :
               k \in DOMAIN stations' /\ stations'[k] = stations[k]
        /\ Cardinality(DOMAIN stations') >= Cardinality(DOMAIN stations)
        /\ (InsertEntered /\ StepKey \in DOMAIN stations)
               => /\ stations' = stations
                  /\ msg' = [kind |-> "Warning", key |-> StepKey]
                  /\ err' = "none"
                  /\ pc' = "loop" ]_vars

\* a duplicate was reported for a line whose own value differs from the
\* stored one
C1_Witness ==
    /\ msg.kind = "Warning"
    /\ ElementNames(opts.dbver) \subseteq env.bound
    /\ msg.key \in DOMAIN stations
    /\ stations[msg.key] # NewElement(env, opts.dbver)

\* a line with fewer than 7 comma fields, whitespace fields and tab fields
IsMalformed(line) ==
    /\ ~IsBlankOrComment(line)
    /\ Len(split(line, ",")) < 7
    /\ Len(splitws(line)) < 7
    /\ Len(split(line, "\t")) < 7

\* C2: a malformed line is skipped wherever it occurs: the run does not
\* abort, the station dictionary is unchanged, the loop goes on.
C2_MalformedSkipped ==
    [][ (TookLine /\ IsMalformed(LineTaken))
            => (pc' = "loop" /\ err' = "none" /\ stations' = stations) ]_vars

\* C3: the database is written at most once, only after the whole station
\* list has been consumed, and never on a run that ended early.
C3_WriteOnlyAfterWholeInput ==
    /\ Len(pkl) <= 1
    /\ Len(pkl) = 1 => (eof /\ err = "none" /\ pkl[1].stdb = stations)
    /\ (pc \in {"aborted", "exit"} \/ err # "none") => Len(pkl) = 0

\* a database with a station in it was written after two lines or more
C3_Witness ==
    /\ pc = "done"
    /\ Len(pkl) = 1
    /\ nread >= 2
    /\ DOMAIN pkl[1].stdb # {}

\* C4: the version-2 record added for a delimited line whose comma-field
\* count is not 14 has an empty restricted status.
C4_StatusDefaultsEmpty ==
    [][ ( /\ TookLine
          /\ opts.dbver = 2
          /\ ~IsBlankOrComment(LineTaken)
          /\ IsDelimited(LineTaken)
          /\ Len(split(LineTaken, ",")) # 14
          /\ msg'.kind = "Adding" )
            => stations'[msg'.key].restricted_status = <<>> ]_vars

\* C5: a delimited line with 7 to 9 fields, which has no latitude/longitude
\* position, is skipped: the dictionary is unchanged and the loop goes on.
C5_ParseFailureLocal ==
    [][ ( /\ TookLine
          /\ ~IsBlankOrComment(LineTaken)
          /\ IsDelimited(LineTaken)
          /\ Len(split(LineTaken, ",")) \in 7..9 )
            => (pc' = "loop" /\ err' = "none" /\ stations' = stations) ]_vars

\* s without its leading and trailing whitespace
Trimmed(s) ==
    LET ink == {i \in 1..Len(s) : s[i] \notin Whitespace}
    IN IF ink = {} THEN <<>>
       ELSE SubSeq(s, CHOOSE i \in ink : \A j \in ink : i <= j,
                      CHOOSE i \in ink : \A j \in ink : i >= j)

\* s in a field two characters wide: spaces are added on the right of a
\* shorter s
TwoWide(s) ==
    IF Len(s) = 0 THEN <<" ", " ">>
    ELSE IF Len(s) = 1 THEN <<s[1], " ">>
    ELSE s

\* the key as C6 words it: the channel, padded if shorter than 2
KeyAsClaimed(net, stn, chn, lkey) ==
    IF lkey
    THEN Trimmed(net) \o <<".">> \o Trimmed(stn) \o <<".">> \o TwoWide(chn)
    ELSE Trimmed(net) \o <<".">> \o Trimmed(stn)

\* the key with the channel trimmed before it is padded
KeyAmended(net, stn, chn, lkey) ==
    IF lkey
    THEN Trimmed(net) \o <<".">> \o Trimmed(stn) \o <<".">>
             \o TwoWide(Trimmed(chn))
    ELSE Trimmed(net) \o <<".">> \o Trimmed(stn)

\* C6 as stated: the key of a parsed line is trim(network).trim(station),
\* in long mode followed by "." and the channel padded on the right to 2
\* characters; the key mode never changes.
C6_KeyAsClaimed ==
    [][ /\ opts'.lkey = opts.lkey
        /\ (InsertEntered /\ "key" \in env'.bound)
               => env'.key = KeyAsClaimed(env'.net, env'.stn, env'.chn,
                                          opts.lkey) ]_vars

\* C6 amended: in long mode the channel part is the channel with its
\* leading and trailing whitespace removed, then padded on the right to 2
\* characters, so it is exactly 2 wide; the rest as stated.
C6_KeyAmended ==
    [][ /\ opts'.lkey = opts.lkey
        /\ (InsertEntered /\ "key" \in env'.bound)
               => /\ env'.key = KeyAmended(env'.net, env'.stn, env'.chn,
                                           opts.lkey)
                  /\ opts.lkey =>
                         Len(env'.key) = Len(Trimmed(env'.net)) + 1
                                         + Len(Trimmed(env'.stn)) + 1 + 2 ]_vars

\* a long key was built for a channel that carries whitespace
C6_Witness ==
    /\ pc = "loop"
    /\ opts.lkey
    /\ "key" \in env.bound
    /\ msg.kind = "Adding"
    /\ env.chn # Trimmed(env.chn)

\* the channel of a stored value
ChannelOf(v) == IF v.ver = 2 THEN v.channel ELSE v.list[5]

\* the raw channel field of a line of one of the two formats
RawChannel(line) ==
    IF IsDelimited(line) THEN split(line, ",")[4] ELSE ColumnarFields(line)[3]

\* C9 as stated: every stored record has a channel of exactly 2 characters.
C9_ChannelExactlyTwo ==
    \A k \in DOMAIN stations : Len(ChannelOf(stations[k])) = 2

\* C9 amended: every stored record has a channel of at most 2 characters:
\* the first 2 characters of the raw channel field, or the whole field when
\* it is shorter, never padded.
C9_ChannelTruncated ==
    [][ /\ \A k \in DOMAIN stations' : Len(ChannelOf(stations'[k])) <= 2
        /\ (BranchCompleted /\ msg'.kind = "Adding")
               => LET c == ChannelOf(stations'[msg'.key])
                      raw == RawChannel(LineTaken)
                  IN /\ Len(c) = (IF Len(raw) < 2 THEN Len(raw) ELSE 2)
                     /\ \A i \in 1..Len(c) : c[i] = raw[i] ]_vars

\* a record with a one-character channel is stored
C9_Witness ==
    \E k \in DOMAIN stations : Len(ChannelOf(stations[k])) = 1

\* the value of field i of f when f has it, else the default
FieldOr(f, i, default) == IF Len(f) >= i THEN float(f[i]) ELSE default

\* C10: after a valid delimited line, elevation, polarity and azimuth
\* correction are the 11th, 12th and 13th field when the line has them and
\* 0.0, 1.0 and 0.0 otherwise, whatever the lines before; the version-2
\* record added for the line carries them.
C10_OptionalFieldsPerLine ==
    [][ ( /\ BranchCompleted
          /\ IsDelimited(LineTaken) )
            => LET f == split(LineTaken, ",")
               IN /\ {"elev", "pol", "azcor"} \subseteq env'.bound
                  /\ env'.elev = FieldOr(f, 11, 0)
                  /\ env'.pol = FieldOr(f, 12, 1)
                  /\ env'.azcor = FieldOr(f, 13, 0)
                  /\ (msg'.kind = "Adding" /\ opts.dbver = 2)
                         => /\ stations'[msg'.key].elevation = FieldOr(f, 11, 0)
                            /\ stations'[msg'.key].polarity = FieldOr(f, 12, 1)
                            /\ stations'[msg'.key].azcorr = FieldOr(f, 13, 0)
      ]_vars

\* a 10-field line was added with the defaults after a line that set other
\* values
C10_Witness ==
    /\ opts.dbver = 2
    /\ msg.kind = "Adding"
    /\ IsDelimited(strip(cur))
    /\ Len(split(strip(cur), ",")) = 10
    /\ stations[msg.key].elevation = 0
    /\ stations[msg.key].polarity = 1
    /\ \E k \in DOMAIN stations :
           stations[k].elevation # 0 /\ stations[k].polarity # 1

(***************************************************************************)
(* Properties of the lister                                                *)
(***************************************************************************)
\* f occurs in k as a run of consecutive characters, case-sensitively
IsSubstring(f, k) ==
    \E i \in 1..(Len(k) + 1) : \E j \in (i - 1)..Len(k) : SubSeq(k, i, j) = f

\* the keys of the database that contain the fragment f
Matching(f) == {k \in DOMAIN db : IsSubstring(f, k)}

\* the number of entries of the result before the block of fragment i
RECURSIVE BlockStart(_)
BlockStart(i) ==
    IF i = 1 THEN 0
    ELSE BlockStart(i - 1) + Cardinality(Matching(lopts.keys[i - 1]))

\* the place of the key k in the database's key order
Position(k) == CHOOSE p \in 1..Len(allkeys) : allkeys[p] = k

\* how often the key k occurs in the result
Occurrences(k) == Cardinality({p \in 1..Len(stkeys) : stkeys[p] = k})

\* C7: with fragments given, the key list is one block per fragment in
\* fragment order; a block holds exactly the keys containing its fragment,
\* each once, in the database's key order; a key matching k fragments
\* occurs k times and a key matching none does not occur.
C7_FilterBlocks ==
    (lpc = "list" /\ Len(lopts.keys) > 0) =>
        LET m == Len(lopts.keys)
        IN /\ Len(stkeys) = BlockStart(m + 1)
           /\ \A i \in 1..m :
                  LET lo == BlockStart(i)
                      n == Cardinality(Matching(lopts.keys[i]))
                  IN /\ {stkeys[p] : p \in (lo + 1)..(lo + n)}
                            = Matching(lopts.keys[i])
                     /\ \A p, q \in (lo + 1)..(lo + n) :
                            p < q => Position(stkeys[p]) < Position(stkeys[q])
           /\ \A k \in DOMAIN db :
                  Occurrences(k)
                      = Cardinality({i \in 1..m : IsSubstring(lopts.keys[i], k)})

\* two fragments were given; one key is listed twice, another not at all,
\* and a block holds two keys
C7_Witness ==
    /\ lpc = "list"
    /\ Len(lopts.keys) = 2
    /\ \E k \in DOMAIN db : Occurrences(k) = 2
    /\ \E k \in DOMAIN db : Occurrences(k) = 0
    /\ Cardinality(Matching(lopts.keys[1])) >= 2

\* C8: after a networks-only listing, the networks printed are strictly
\* ascending and are exactly the networks of the records of the database,
\* with or without a key-fragment filter.
C8_NetworksOfAllRecords ==
    (lopts.networks /\ npickle >= 1 /\ lpc \in {"load", "done"}) =>
        /\ \A i \in 1..(Len(nets) - 1) : strlt(nets[i], nets[i + 1])
        /\ {nets[i] : i \in 1..Len(nets)} = {db[k].network : k \in DOMAIN db}

=============================================================================
